---- MODULE Spec2Model ----
(***************************************************************************)
(* TravellingSalesman<E>::findPath (src/utils/TravellingSalesman.h): the   *)
(* random insertion heuristic over elements that can be traversed in       *)
(* several orientations, each orientation an (entry point, exit point)     *)
(* pair.  One behaviour of the model is one call of findPath.              *)
(***************************************************************************)
EXTENDS Integers, Sequences, FiniteSets, TLC

(* ------------------------------ bounds -------------------------------- *)
\* Longest input sequence `elements`.
MaxN == 3
\* Most orientation candidates get_orientations returns for one element.
MaxOri == 2

(* ------------------------------ inputs -------------------------------- *)
\* The values of type E that occur in the input (equal values may repeat).
ElemVals == {"a", "b"}

\* The points the inputs are built from: a 3-4-5 triangle, so that the
\* three pairwise distances differ and the square root is not trivial.
Points == {<<0, 0>>, <<3, 0>>, <<0, 4>>}

\* starting_point == nullptr
NoPoint == <<-1, -1>>

\* What an element can be, as the (entry, exit) pair of its first
\* orientation: a closed shape entered and left at one corner of the
\* triangle, or a side of the triangle.
Shapes ==
    {<<p, p>> : p \in Points}
        \cup {<<<<0, 0>>, <<3, 0>>>>, <<<<3, 0>>, <<0, 4>>>>, <<<<0, 4>>, <<0, 0>>>>}

\* The orientation candidates of a line from a to b: forwards, backwards,
\* forwards, ... (k of them; k = 0 is the degenerate element).
LineOrientations(a, b, k) ==
    [j \in 1..k |-> IF j % 2 = 1 THEN <<a, b>> ELSE <<b, a>>]

OrientationLists ==
    {LineOrientations(s[1], s[2], k) : s \in Shapes, k \in 0..MaxOri}

\* The orientation functions and starting points of the repeated calls.
RerunLists ==
    {LineOrientations(<<0, 0>>, <<3, 0>>, k) : k \in 0..MaxOri}

RerunStarts == {NoPoint, <<0, 4>>}

\* What the caller's element_orientations vector may hold before the call.
PriorOrientations == {<<>>, <<1>>}

\* All sequences over S of length 0..n.
SeqsUpTo(S, n) == UNION {[1..m -> S] : m \in 0..n}

(* ----------------------------- constants ------------------------------ *)
\* std::numeric_limits<int64_t>::max(). TLC's integers have 32 bits, so the
\* model uses the largest of those; every distance of the model is far
\* below it and nothing is ever added to it.
INT64_MAX == 2147483647

\* An index or iterator that has been declared but not assigned.
Unset == -1

\* The values an unassigned size_t may turn out to hold.
GarbageIndex == 0..MaxOri

(* ------------------------------ geometry ------------------------------ *)
\* Point - Point
Minus(p, q) == <<p[1] - q[1], p[2] - q[2]>>

\* The integer part of the square root.
ISqrt(n) == CHOOSE r \in 0..n : r * r <= n /\ (r + 1) * (r + 1) > n

\* Length of the vector p, truncated to an integer.
vSize(p) == ISqrt(p[1] * p[1] + p[2] * p[2])

VARIABLES
    elements,             \* argument: the elements to order
    get_orientations,     \* field: the orientation candidates of each element value
    starting_point,       \* argument: fixed start of the path, or NoPoint
    prior_orientations,   \* what element_orientations held when findPath was called
    element_orientations, \* output parameter
    result_vector,        \* return value
    shuffled,             \* the waypoints, by their elements, in shuffled order
    chosen,               \* Waypoint::best_orientation_index of each waypoint
    result,               \* the working path: a list of waypoints (indices into shuffled)
    next_to_insert,       \* loop variable of the insertion loop
    before_insert,        \* loop variable of the scan over the positions
    best_distance,        \* locals of one insertion round
    best_insert,
    best_orientation_index,
    pc,                   \* where the call is
    rounds,               \* number of insertion rounds committed so far
    ub,                   \* the call has read a value it never assigned
    committed_cost,       \* sum of best_distance over the committed rounds
    run,                  \* 1 in the first call, 2 in a repeated call
    first_outcome,        \* the outcome of the first call, once it is repeated
    assigned,             \* of each waypoint: how often its best_orientation_index was written
    deleted               \* of each waypoint: how often it was deleted

vars == <<elements, get_orientations, starting_point, prior_orientations,
          element_orientations, result_vector, shuffled, chosen, result,
          next_to_insert, before_insert, best_distance, best_insert,
          best_orientation_index, pc, rounds, ub, committed_cost, run,
          first_outcome, assigned, deleted>>

args == <<elements, get_orientations, starting_point, prior_orientations>>
locals == <<best_distance, best_insert, best_orientation_index>>

(* ------------------------------ waypoints ----------------------------- *)
\* Waypoint::orientation_indices of waypoint w
Orientations(w) == get_orientations[shuffled[w]]

NumOrientations(w) == Len(Orientations(w))

\* orientation_indices[o].first and .second, o counted from 0 as in the source
EntryOf(w, o) == Orientations(w)[o + 1][1]
ExitOf(w, o) == Orientations(w)[o + 1][2]

\* best_orientation_index of w is an index into its orientation_indices
ChosenValid(w) == chosen[w] >= 0 /\ chosen[w] < NumOrientations(w)

\* The state when findPath is called: the orientation function gives every
\* element a list out of lists, the starting point is one of starts and
\* element_orientations holds one of priors. The orientation function
\* ranges over all functions, so up to the names of the two values the first
\* element is "a"; the shuffle puts either value first.
InitWith(lists, starts, priors) ==
    /\ elements \in SeqsUpTo(ElemVals, MaxN)
    /\ elements # <<>> => Head(elements) = "a"
    /\ get_orientations \in [ElemVals -> lists]
    /\ starting_point \in starts
    /\ prior_orientations \in priors
    /\ element_orientations = prior_orientations
    /\ result_vector = <<>>
    /\ shuffled = <<>>
    /\ chosen = <<>>
    /\ result = <<>>
    /\ next_to_insert = 0
    /\ before_insert = 0
    /\ best_distance = INT64_MAX
    /\ best_insert = Unset
    /\ best_orientation_index = Unset
    /\ pc = "call"
    /\ rounds = 0
    /\ committed_cost = 0
    /\ ub = FALSE
    /\ run = 1
    /\ first_outcome = <<>>
    /\ assigned = <<>>
    /\ deleted = <<>>

\* Any orientation function, elements without candidates included.
InitAny == InitWith(OrientationLists, Points \cup {NoPoint}, PriorOrientations)

\* Every element has at least one orientation candidate.
WellFormed == \A e \in ElemVals : Len(get_orientations[e]) >= 1

\* The state when findPath is called with an orientation function that
\* gives every element at least one orientation.
Init == InitAny /\ WellFormed

\* The calls that are repeated: lines between two fixed points, with no
\* starting point or the third point as one.
InitRerun == InitWith(RerunLists, RerunStarts, {<<>>})

\* if (elements.empty()) return std::vector<E>();
ReturnEmptyGuard == pc = "call" /\ elements = <<>>

ReturnEmpty ==
    /\ ReturnEmptyGuard
    /\ result_vector' = <<>>
    /\ pc' = "done"
    /\ UNCHANGED <<args, element_orientations, shuffled, chosen, result,
                   next_to_insert, before_insert, locals, rounds,
                   committed_cost, ub, run, first_outcome,
                   assigned, deleted>>

\* The permutation p applied to the waypoints made from elements.
Shuffle(elems, p) == [i \in 1..Len(elems) |-> elems[p[i]]]

\* elements is not empty: the call goes on.
FillAndShuffleGuard == pc = "call" /\ elements # <<>>

\* fillWaypoints and std::shuffle with the engine seeded with 0xDECAFF. The
\* permutation the library applies is a function of the length alone; it is
\* any permutation in a first call and the same one in a repeated call.
FillAndShuffle ==
    /\ FillAndShuffleGuard
    /\ \E p \in Permutations(1..Len(elements)) :
          /\ shuffled' = Shuffle(elements, p)
          /\ run = 2 => shuffled' = shuffled
    /\ chosen' = [i \in 1..Len(elements) |-> Unset]
    /\ assigned' = [i \in 1..Len(elements) |-> 0]
    /\ deleted' = [i \in 1..Len(elements) |-> 0]
    /\ result' = <<>>
    /\ pc' = "seed"
    /\ UNCHANGED <<args, element_orientations, result_vector, next_to_insert,
                   before_insert, locals, rounds, committed_cost, ub, run,
                   first_outcome>>

\* waypoint->best_orientation_index = ...: one more write of the field of w.
Written(w) == [assigned EXCEPT ![w] = @ + 1]

\* The seed is placed: result.push_back(shuffled[0]) and on to the loop.
PlaceSeed(orientation) ==
    /\ chosen' = [chosen EXCEPT ![1] = orientation]
    /\ assigned' = Written(1)
    /\ result' = <<1>>
    /\ next_to_insert' = 2
    /\ pc' = "loop"
    /\ UNCHANGED <<args, element_orientations, result_vector, shuffled,
                   before_insert, locals, rounds, committed_cost, run,
                   first_outcome, deleted>>

\* if (!starting_point): orientation 0 for the first waypoint
SeedWithoutStartGuard == pc = "seed" /\ starting_point = NoPoint

SeedWithoutStart ==
    /\ SeedWithoutStartGuard
    /\ PlaceSeed(0)
    /\ UNCHANGED ub

\* The same comparison with <= instead of <.
SeedUpdateOrEqual(best, distance, orientation) ==
    IF distance <= best.distance
    THEN [distance |-> distance, orientation_index |-> orientation]
    ELSE best

\* if (distance < best_distance) { best_distance = ...; best_orientation_index = ... }
SeedUpdate(best, distance, orientation) ==
    IF distance < best.distance
    THEN [distance |-> distance, orientation_index |-> orientation]
    ELSE best

\* The loop over the orientations of the first waypoint, from orientation o on.
RECURSIVE SeedScan(_, _, _)
SeedScan(w, o, best) ==
    IF o >= NumOrientations(w)
    THEN best
    ELSE SeedScan(w, o + 1,
             SeedUpdate(best, vSize(Minus(starting_point, EntryOf(w, o))), o))

\* else: the orientation whose start is nearest to the starting point
SeedWithStartGuard ==
    pc = "seed" /\ starting_point # NoPoint /\ NumOrientations(1) > 0

SeedWithStart ==
    /\ SeedWithStartGuard
    /\ \E b \in {SeedScan(1, 0, [distance |-> INT64_MAX,
                                 orientation_index |-> Unset])} :
          PlaceSeed(b.orientation_index)
    /\ UNCHANGED ub

\* The same with no orientation to scan: best_orientation_index is copied
\* into the waypoint without ever having been assigned.
SeedWithStartUnassigned ==
    /\ pc = "seed"
    /\ starting_point # NoPoint
    /\ NumOrientations(1) = 0
    /\ \E g \in GarbageIndex : PlaceSeed(g)
    /\ ub' = TRUE

(* --------------------------- the cost scan ---------------------------- *)
\* The same comparison with <= instead of <.
UpdateOrEqual(best, distance, insert, orientation) ==
    IF distance <= best.distance
    THEN [distance |-> distance, insert |-> insert,
          orientation_index |-> orientation]
    ELSE best

\* if (distance < *best_distance) { *best_distance = distance;
\*     *best_insert = ...; *best_orientation_index = orientation; }
Update(best, distance, insert, orientation) ==
    IF distance < best.distance
    THEN [distance |-> distance, insert |-> insert,
          orientation_index |-> orientation]
    ELSE best

\* The distance of tryInsertFirst measured from the start of w, not its end.
FirstDistanceFromStart(w, o, start_of_first) ==
    LET before_distance ==
            IF starting_point # NoPoint
            THEN vSize(Minus(starting_point, EntryOf(w, o)))
            ELSE 0
        after_distance == vSize(Minus(EntryOf(w, o), start_of_first))
    IN  before_distance + after_distance

\* The distance tryInsertFirst computes for orientation o of waypoint w.
FirstDistance(w, o, start_of_first) ==
    LET before_distance ==
            IF starting_point # NoPoint
            THEN vSize(Minus(starting_point, EntryOf(w, o)))
            ELSE 0
        after_distance == vSize(Minus(ExitOf(w, o), start_of_first))
    IN  before_distance + after_distance

\* The distance tryInsertLast computes.
LastDistance(w, o, end_of_last) == vSize(Minus(end_of_last, EntryOf(w, o)))

\* The distance tryInsertMiddle computes.
MiddleDistance(w, o, end_of_before, start_of_after) ==
    LET removed_distance == vSize(Minus(end_of_before, start_of_after))
        before_distance == vSize(Minus(end_of_before, EntryOf(w, o)))
        after_distance == vSize(Minus(ExitOf(w, o), start_of_after))
    IN  before_distance + after_distance - removed_distance

\* The three loops over the orientations of w, from orientation o on.
RECURSIVE tryInsertFirst(_, _, _, _, _)
tryInsertFirst(w, start_of_first, first_element, o, best) ==
    IF o >= NumOrientations(w)
    THEN best
    ELSE tryInsertFirst(w, start_of_first, first_element, o + 1,
             Update(best, FirstDistance(w, o, start_of_first), first_element, o))

RECURSIVE tryInsertLast(_, _, _, _, _)
tryInsertLast(w, end_of_last, after_insert, o, best) ==
    IF o >= NumOrientations(w)
    THEN best
    ELSE tryInsertLast(w, end_of_last, after_insert, o + 1,
             Update(best, LastDistance(w, o, end_of_last), after_insert, o))

RECURSIVE tryInsertMiddle(_, _, _, _, _, _)
tryInsertMiddle(w, end_of_before, start_of_after, after_insert, o, best) ==
    IF o >= NumOrientations(w)
    THEN best
    ELSE tryInsertMiddle(w, end_of_before, start_of_after, after_insert, o + 1,
             Update(best, MiddleDistance(w, o, end_of_before, start_of_after),
                    after_insert, o))

\* The three best_* locals as one record, and back.
Best == [distance |-> best_distance, insert |-> best_insert,
         orientation_index |-> best_orientation_index]

SetBest(b) ==
    /\ best_distance' = b.distance
    /\ best_insert' = b.insert
    /\ best_orientation_index' = b.orientation_index

\* The locals as declared at the top of the loop body.
FreshBest == [distance |-> INT64_MAX, insert |-> Unset,
              orientation_index |-> Unset]

\* Iterators are positions in result: 1 is begin(), Len(result) + 1 is end().
End == Len(result) + 1

\* The loop condition with < Len in place of < size() counted from 0.
OneRoundShort == next_to_insert < Len(shuffled)

\* next_to_insert < shuffled.size(), next_to_insert counted from 1 here.
MoreToInsert == next_to_insert <= Len(shuffled)

\* The top of the loop body and tryInsertFirst, the first waypoint of the
\* path offering start_of_first.
FirstStep(start_of_first) ==
    /\ \E b \in {tryInsertFirst(next_to_insert, start_of_first, 1, 0, FreshBest)} :
          SetBest(b)
    /\ before_insert' = 1
    /\ pc' = "scan"
    /\ UNCHANGED <<args, element_orientations, result_vector, shuffled,
                   chosen, result, next_to_insert, rounds, committed_cost,
                   run, first_outcome,
                   assigned, deleted>>

\* The loop goes on and tryInsertFirst reads nothing out of bounds.
BeginRoundGuard ==
    /\ pc = "loop"
    /\ MoreToInsert
    /\ NumOrientations(next_to_insert) = 0 \/ ChosenValid(result[1])

BeginRound ==
    /\ BeginRoundGuard
    /\ FirstStep(IF ChosenValid(result[1])
                 THEN EntryOf(result[1], chosen[result[1]])
                 ELSE NoPoint)
    /\ UNCHANGED ub

\* The first waypoint of the path has no orientation at its chosen index:
\* the read is out of the vector's bounds and yields whatever lies there.
BeginRoundOutOfBounds ==
    /\ pc = "loop"
    /\ MoreToInsert
    /\ NumOrientations(next_to_insert) > 0
    /\ ~ChosenValid(result[1])
    /\ \E g \in Points : FirstStep(g)
    /\ ub' = TRUE

\* One step of the scan: before_insert moves on.
ScanStep(b) ==
    /\ SetBest(b)
    /\ before_insert' = before_insert + 1
    /\ UNCHANGED <<args, element_orientations, result_vector, shuffled,
                   chosen, result, next_to_insert, pc, rounds,
                   committed_cost, run, first_outcome,
                   assigned, deleted>>

\* after_insert == result.end(), and tryInsertLast reads nothing out of bounds.
TryLastGuard ==
    /\ pc = "scan"
    /\ before_insert = Len(result)
    /\ NumOrientations(next_to_insert) = 0 \/ ChosenValid(result[before_insert])

\* tryInsertLast
TryLast ==
    /\ TryLastGuard
    /\ \E b \in {tryInsertLast(next_to_insert,
                    IF ChosenValid(result[before_insert])
                    THEN ExitOf(result[before_insert], chosen[result[before_insert]])
                    ELSE NoPoint,
                    End, 0, Best)} :
          ScanStep(b)
    /\ UNCHANGED ub

TryLastOutOfBounds ==
    /\ pc = "scan"
    /\ before_insert = Len(result)
    /\ NumOrientations(next_to_insert) > 0
    /\ ~ChosenValid(result[before_insert])
    /\ \E g \in Points :
          \E b \in {tryInsertLast(next_to_insert, g, End, 0, Best)} : ScanStep(b)
    /\ ub' = TRUE

\* There is a next element, and tryInsertMiddle reads nothing out of bounds.
TryMiddleGuard ==
    /\ pc = "scan"
    /\ before_insert < Len(result)
    /\ \/ NumOrientations(next_to_insert) = 0
       \/ ChosenValid(result[before_insert]) /\ ChosenValid(result[before_insert + 1])

\* tryInsertMiddle
TryMiddle ==
    /\ TryMiddleGuard
    /\ LET before == result[before_insert]
           after == result[before_insert + 1]
       IN  \E b \in {tryInsertMiddle(next_to_insert,
                        IF ChosenValid(before)
                        THEN ExitOf(before, chosen[before]) ELSE NoPoint,
                        IF ChosenValid(after)
                        THEN EntryOf(after, chosen[after]) ELSE NoPoint,
                        before_insert + 1, 0, Best)} :
              ScanStep(b)
    /\ UNCHANGED ub

TryMiddleOutOfBounds ==
    /\ pc = "scan"
    /\ before_insert < Len(result)
    /\ NumOrientations(next_to_insert) > 0
    /\ LET before == result[before_insert]
           after == result[before_insert + 1]
       IN  /\ ~(ChosenValid(before) /\ ChosenValid(after))
           /\ \E g1 \in Points, g2 \in Points :
                 \E b \in {tryInsertMiddle(next_to_insert,
                         IF ChosenValid(before)
                         THEN ExitOf(before, chosen[before]) ELSE g1,
                         IF ChosenValid(after)
                         THEN EntryOf(after, chosen[after]) ELSE g2,
                         before_insert + 1, 0, Best)} :
                    ScanStep(b)
    /\ ub' = TRUE

\* An insertion that overwrites the waypoint at the position.
InsertOverwriting(list, position, w) ==
    SubSeq(list, 1, position - 1) \o <<w>> \o SubSeq(list, position + 1, Len(list))

\* result.insert(position, w); position End is push_back.
InsertBefore(list, position, w) ==
    SubSeq(list, 1, position - 1) \o <<w>> \o SubSeq(list, position, Len(list))

\* The waypoint gets its orientation and goes into the path.
Place(position, orientation) ==
    /\ chosen' = [chosen EXCEPT ![next_to_insert] = orientation]
    /\ assigned' = Written(next_to_insert)
    /\ result' = InsertBefore(result, position, next_to_insert)
    /\ next_to_insert' = next_to_insert + 1
    /\ rounds' = rounds + 1
    /\ committed_cost' =
          committed_cost + (IF best_insert # Unset THEN best_distance ELSE 0)
    /\ pc' = "loop"
    /\ UNCHANGED <<args, element_orientations, result_vector, shuffled,
                   before_insert, locals, run, first_outcome, deleted>>

\* Actually insert the waypoint at the best position we found.
\* The scan is over and has assigned best_insert.
CommitGuard ==
    pc = "scan" /\ before_insert > Len(result) /\ best_insert # Unset

Commit ==
    /\ CommitGuard
    /\ Place(best_insert, best_orientation_index)
    /\ UNCHANGED ub

\* No orientation was scanned: best_insert and best_orientation_index were
\* never assigned, and the insertion uses whatever they hold.
CommitUnassigned ==
    /\ pc = "scan"
    /\ before_insert > Len(result)
    /\ best_insert = Unset
    /\ \E position \in 1..End, g \in GarbageIndex : Place(position, g)
    /\ ub' = TRUE

\* A read out of bounds or an insertion at a singular iterator may also end
\* the process.
Crash ==
    /\ \/ /\ pc = "loop"
          /\ MoreToInsert
          /\ NumOrientations(next_to_insert) > 0
          /\ ~ChosenValid(result[1])
       \/ /\ pc = "scan"
          /\ before_insert = Len(result)
          /\ NumOrientations(next_to_insert) > 0
          /\ ~ChosenValid(result[before_insert])
       \/ /\ pc = "scan"
          /\ before_insert < Len(result)
          /\ NumOrientations(next_to_insert) > 0
          /\ ~(ChosenValid(result[before_insert])
                 /\ ChosenValid(result[before_insert + 1]))
       \/ /\ pc = "scan"
          /\ before_insert > Len(result)
          /\ best_insert = Unset
    /\ pc' = "crashed"
    /\ ub' = TRUE
    /\ UNCHANGED <<args, element_orientations, result_vector, shuffled,
                   chosen, result, next_to_insert, before_insert, locals,
                   rounds, committed_cost, run, first_outcome,
                   assigned, deleted>>

(* --------------------------- linearisation ---------------------------- *)
\* The start of the linearisation without element_orientations.clear().
StartLineariseWithoutClear ==
    /\ pc = "loop" /\ ~MoreToInsert
    /\ result_vector' = <<>>
    /\ pc' = "copy"
    /\ UNCHANGED <<args, element_orientations, shuffled, chosen, result,
                   next_to_insert, before_insert, locals, rounds,
                   committed_cost, ub, run, first_outcome,
                   assigned, deleted>>

\* The loop is over: result_vector is declared, element_orientations cleared.
StartLineariseGuard == pc = "loop" /\ ~MoreToInsert

StartLinearise ==
    /\ StartLineariseGuard
    /\ result_vector' = <<>>
    /\ element_orientations' = <<>>
    /\ pc' = "copy"
    /\ UNCHANGED <<args, shuffled, chosen, result, next_to_insert,
                   before_insert, locals, rounds, committed_cost, ub, run,
                   first_outcome,
                   assigned, deleted>>

\* The waypoint is copied out and stays allocated.
KeepWaypoint(w) == deleted

\* delete waypoint;
Delete(w) == [deleted EXCEPT ![w] = @ + 1]

\* for (Waypoint<E>* waypoint : result): one waypoint is copied out.
CopyOutGuard == pc = "copy" /\ Len(result_vector) < Len(result)

CopyOut ==
    /\ CopyOutGuard
    /\ LET waypoint == result[Len(result_vector) + 1]
       IN  /\ result_vector' = Append(result_vector, shuffled[waypoint])
           /\ element_orientations' = Append(element_orientations, chosen[waypoint])
           /\ deleted' = Delete(waypoint)
    /\ UNCHANGED <<args, shuffled, chosen, result, next_to_insert,
                   before_insert, locals, pc, rounds, committed_cost, ub,
                   run, first_outcome, assigned>>

\* return result_vector;
ReturnGuard == pc = "copy" /\ Len(result_vector) = Len(result)

Return ==
    /\ ReturnGuard
    /\ pc' = "done"
    /\ UNCHANGED <<args, element_orientations, result_vector, shuffled,
                   chosen, result, next_to_insert, before_insert, locals,
                   rounds, committed_cost, ub, run, first_outcome,
                   assigned, deleted>>

\* What a caller sees of a call that is over.
Outcome == <<pc, result_vector, element_orientations>>

\* The caller calls findPath again with the same arguments.
Rerun ==
    /\ pc \in {"done", "crashed"}
    /\ run = 1
    /\ run' = 2
    /\ first_outcome' = Outcome
    /\ element_orientations' = prior_orientations
    /\ result_vector' = <<>>
    /\ chosen' = <<>>
    /\ assigned' = <<>>
    /\ deleted' = <<>>
    /\ result' = <<>>
    /\ next_to_insert' = 0
    /\ before_insert' = 0
    /\ SetBest(FreshBest)
    /\ rounds' = 0
    /\ committed_cost' = 0
    /\ ub' = FALSE
    /\ pc' = "call"
    /\ UNCHANGED <<args, shuffled>>

\* The steps of a call in which every read is of an assigned value.
Next ==
    \/ ReturnEmpty
    \/ FillAndShuffle
    \/ SeedWithoutStart
    \/ SeedWithStart
    \/ BeginRound
    \/ TryLast
    \/ TryMiddle
    \/ Commit
    \/ StartLinearise
    \/ CopyOut
    \/ Return

\* The steps that read an unassigned or out-of-bounds value: they take an
\* element without orientation candidates.
NextUndefined ==
    \/ SeedWithStartUnassigned
    \/ BeginRoundOutOfBounds
    \/ TryLastOutOfBounds
    \/ TryMiddleOutOfBounds
    \/ CommitUnassigned
    \/ Crash

NextAny == Next \/ NextUndefined

NextRerun == NextAny \/ Rerun

Spec == Init /\ [][Next]_vars

\* Any orientation function, elements without candidates included.
SpecAny == InitAny /\ [][NextAny]_vars

\* The same, the call repeated once with the same arguments.
SpecRerun == InitRerun /\ [][NextRerun]_vars

(* ------------------------------- claims ------------------------------- *)
\* How often e occurs in the sequence s.
Count(s, e) == Cardinality({i \in DOMAIN s : s[i] = e})

\* s and t have the same length and the same multiset of elements.
IsPermutationOf(s, t) ==
    /\ Len(s) = Len(t)
    /\ \A e \in ElemVals : Count(s, e) = Count(t, e)

\* C1: for a non-empty input whose elements all have an orientation, with or
\* without a starting point, the returned sequence is a permutation of the
\* input: same length, same multiset, nothing dropped, nothing duplicated.
C1_Permutation ==
    (pc = "done" /\ elements # <<>>) => IsPermutationOf(result_vector, elements)

\* Three elements of both values come back in another order.
C1_Witness ==
    /\ pc = "done"
    /\ Len(elements) = 3
    /\ \E i, j \in DOMAIN elements : elements[i] # elements[j]
    /\ result_vector # elements
    /\ result # <<1, 2, 3>>
    /\ starting_point # NoPoint

\* C2: for such an input, after the return element_orientations has as many
\* entries as the returned sequence, whatever it held before, and entry i is
\* the orientation chosen for the waypoint at position i of the path and a
\* valid index into the orientation candidates of the returned element i.
C2_OrientationsParallel ==
    (pc = "done" /\ elements # <<>>) =>
        /\ Len(element_orientations) = Len(result_vector)
        /\ Len(result) = Len(result_vector)
        /\ \A i \in 1..Len(result_vector) :
              /\ result_vector[i] = shuffled[result[i]]
              /\ element_orientations[i] = chosen[result[i]]
              /\ element_orientations[i] >= 0
              /\ element_orientations[i] < Len(get_orientations[result_vector[i]])

\* The vector held something before the call and a second orientation is
\* among the chosen ones.
C2_Witness ==
    /\ pc = "done"
    /\ prior_orientations # <<>>
    /\ Len(result_vector) >= 2
    /\ \E i \in 1..Len(element_orientations) : element_orientations[i] = 1
    /\ \E i \in 1..Len(element_orientations) : element_orientations[i] = 0

\* C3: for an empty input, any starting point and any prior content of
\* element_orientations, findPath returns an empty sequence and leaves
\* element_orientations empty.
C3_EmptyInput ==
    (pc = "done" /\ elements = <<>>) =>
        result_vector = <<>> /\ element_orientations = <<>>

\* C4: findPath is deterministic: a repeated call with the same arguments
\* ends as the first one did, with the same returned sequence and the same
\* element_orientations, and no step of a call reads a value that the call
\* has not assigned.
C4_Deterministic ==
    /\ ~ub
    /\ (run = 2 /\ pc \in {"done", "crashed"}) => Outcome = first_outcome

\* Distance between two points.
Distance(p, q) == vSize(Minus(p, q))

\* The orientation candidates of the seed, the first waypoint after the
\* shuffle, and the distance from the starting point to the entry of each.
SeedOrientations == get_orientations[shuffled[1]]
SeedEntryDistance(o) == Distance(starting_point, SeedOrientations[o + 1][1])

\* o is what the rule of C5 gives the seed.
SeedRule(o) ==
    IF starting_point = NoPoint
    THEN o = 0
    ELSE /\ o \in 0..(Len(SeedOrientations) - 1)
         /\ \A o2 \in 0..(Len(SeedOrientations) - 1) :
               /\ SeedEntryDistance(o) <= SeedEntryDistance(o2)
               /\ o2 < o => SeedEntryDistance(o) < SeedEntryDistance(o2)

\* C5: the seed's chosen orientation is 0 without a starting point and, with
\* one, the lowest index among the orientations whose entry is nearest to
\* the starting point; the output reports that choice for the seed's element.
C5_SeedOrientation ==
    (elements # <<>> /\ pc \notin {"call", "seed"}) =>
        /\ SeedRule(chosen[1])
        /\ pc = "done" =>
              \A i \in 1..Len(result) :
                  result[i] = 1 => /\ result_vector[i] = shuffled[1]
                                   /\ SeedRule(element_orientations[i])

\* With a starting point, the second orientation of the seed is strictly
\* nearer than the first and is reported, the seed not being first in the path.
C5_Witness ==
    /\ pc = "done"
    /\ starting_point # NoPoint
    /\ Len(result) >= 2
    /\ result[1] # 1
    /\ Len(SeedOrientations) = 2
    /\ SeedEntryDistance(1) < SeedEntryDistance(0)
    /\ \E i \in 1..Len(result) : result[i] = 1 /\ element_orientations[i] = 1

\* The input has exactly two elements with exactly one orientation each.
TwoSingleOrientationElements ==
    /\ Len(elements) = 2
    /\ \A i \in 1..2 : Len(get_orientations[elements[i]]) = 1

\* Entry and exit of an element that has a single orientation.
SingleEntry(e) == get_orientations[e][1][1]
SingleExit(e) == get_orientations[e][1][2]

\* The returned order (X, Y) has the shorter exit-to-entry distance.
ShorterOrderReturned ==
    Distance(SingleExit(result_vector[1]), SingleEntry(result_vector[2]))
        <= Distance(SingleExit(result_vector[2]), SingleEntry(result_vector[1]))

\* C6 as claimed: for two elements with one orientation each, with or
\* without a starting point, the returned order (X, Y) satisfies
\* distance(X.exit, Y.entry) <= distance(Y.exit, X.entry).
C6_ShorterOrder ==
    (pc = "done" /\ TwoSingleOrientationElements) => ShorterOrderReturned

\* C6 amended: the same when no starting point is given.
C6_ShorterOrderWithoutStart ==
    (pc = "done" /\ TwoSingleOrientationElements /\ starting_point = NoPoint)
        => ShorterOrderReturned

\* Without a starting point the second waypoint went to the back because
\* that order is strictly shorter.
C6_Witness ==
    /\ pc = "done"
    /\ TwoSingleOrientationElements
    /\ starting_point = NoPoint
    /\ result = <<1, 2>>
    /\ result_vector[1] # result_vector[2]
    /\ Distance(SingleExit(result_vector[1]), SingleEntry(result_vector[2]))
         < Distance(SingleExit(result_vector[2]), SingleEntry(result_vector[1]))

\* Some element of the input has no orientation candidate.
SomeWithoutOrientation ==
    \E i \in DOMAIN elements : Len(get_orientations[elements[i]]) = 0

\* The output is a full valid ordering of the input.
FullValidOrdering ==
    /\ IsPermutationOf(result_vector, elements)
    /\ Len(element_orientations) = Len(result_vector)
    /\ \A i \in 1..Len(result_vector) :
          /\ element_orientations[i] >= 0
          /\ element_orientations[i] < Len(get_orientations[result_vector[i]])

\* C7: when some element has no orientation candidate, findPath fails or
\* returns a full valid ordering of all elements, and it never commits an
\* insertion whose position or orientation the scan of the round did not
\* assign.
C7_AllOrNothing ==
    /\ [](SomeWithoutOrientation /\ pc = "done" => FullValidOrdering)
    /\ [][(pc = "scan" /\ pc' = "loop")
            => (best_insert # Unset /\ best_orientation_index # Unset)]_vars

\* Entry and exit of the waypoint at position i of the path, in its chosen
\* orientation.
PathEntry(i) == EntryOf(result[i], chosen[result[i]])
PathExit(i) == ExitOf(result[i], chosen[result[i]])

\* The (position, orientation) pairs a round scans: position 1 is the
\* front, End the back, the others lie between two waypoints of the path.
ScanPairs ==
    {<<position, o>> : position \in 1..End,
                       o \in 0..(NumOrientations(next_to_insert) - 1)}

\* p comes before q in the scan: front, middle positions from left to
\* right, back; orientations ascending within a position.
ScannedBefore(p, q) == p[1] < q[1] \/ (p[1] = q[1] /\ p[2] < q[2])

\* The cost of C8 for the waypoint of the round at a pair.
ClaimedCost(p) ==
    LET w == next_to_insert
        o == p[2]
    IN  IF p[1] = 1
        THEN (IF starting_point # NoPoint
              THEN Distance(starting_point, EntryOf(w, o)) ELSE 0)
             + Distance(ExitOf(w, o), PathEntry(1))
        ELSE IF p[1] = End
        THEN Distance(PathExit(Len(result)), EntryOf(w, o))
        ELSE Distance(PathExit(p[1] - 1), EntryOf(w, o))
             + Distance(ExitOf(w, o), PathEntry(p[1]))
             - Distance(PathExit(p[1] - 1), PathEntry(p[1]))

\* p is the first pair in scan order whose cost is the minimum of the round.
FirstCheapest(p) ==
    /\ p \in ScanPairs
    /\ \A q \in ScanPairs :
          /\ ClaimedCost(p) <= ClaimedCost(q)
          /\ ScannedBefore(q, p) => ClaimedCost(p) < ClaimedCost(q)

\* C8: in every insertion round the committed (position, orientation) pair
\* is the first pair in scan order whose cost is the minimum over all pairs
\* of the round, with the front, back and middle costs as claimed; its cost
\* is at most that of every other pair and a later pair of equal cost never
\* replaces it.
C8_FirstCheapestCommitted ==
    [][(pc = "scan" /\ pc' = "loop") =>
          LET p == <<best_insert, best_orientation_index>>
          IN  /\ FirstCheapest(p)
              /\ best_distance = ClaimedCost(p)
              /\ Len(result') = Len(result) + 1
              /\ result'[p[1]] = next_to_insert
              /\ chosen'[next_to_insert] = p[2]]_vars

\* The scan of a round over a path of two is complete: a middle position
\* is the best, a later pair costs the same and another pair costs more.
C8_Witness ==
    /\ pc = "scan"
    /\ before_insert > Len(result)
    /\ Len(result) = 2
    /\ best_insert = 2
    /\ \E q \in ScanPairs :
          /\ ScannedBefore(<<best_insert, best_orientation_index>>, q)
          /\ ClaimedCost(q) = best_distance
    /\ \E q \in ScanPairs : ClaimedCost(q) > best_distance

\* The length of a path of waypoints with the orientations ch: the
\* exit-to-entry distances of consecutive waypoints and, with a starting
\* point, the distance from it to the entry of the first waypoint.
RECURSIVE HopsFrom(_, _, _)
HopsFrom(path, ch, i) ==
    IF i >= Len(path)
    THEN 0
    ELSE Distance(ExitOf(path[i], ch[path[i]]),
                  EntryOf(path[i + 1], ch[path[i + 1]]))
         + HopsFrom(path, ch, i + 1)

PathLength(path, ch) ==
    (IF starting_point # NoPoint /\ path # <<>>
     THEN Distance(starting_point, EntryOf(path[1], ch[path[1]]))
     ELSE 0)
    + HopsFrom(path, ch, 1)

\* The path with waypoint w put at a position.
PathWith(position, w) ==
    [i \in 1..(Len(result) + 1) |->
        IF i < position THEN result[i]
        ELSE IF i = position THEN w
        ELSE result[i - 1]]

\* The distance the code evaluates for the waypoint of the round at a pair.
EvaluatedCost(p) ==
    IF p[1] = 1
    THEN FirstDistance(next_to_insert, p[2], PathEntry(1))
    ELSE IF p[1] = End
    THEN LastDistance(next_to_insert, p[2], PathExit(Len(result)))
    ELSE MiddleDistance(next_to_insert, p[2], PathExit(p[1] - 1), PathEntry(p[1]))

\* C9: the cost evaluated for a pair is the increase in path length, length
\* of the path with the waypoint inserted there minus length of the path
\* before, at every position and orientation, with or without a starting
\* point; so the final path length is the seed's starting distance plus the
\* committed costs of all rounds.
C9_MarginalCost ==
    /\ pc = "scan" =>
          \A p \in ScanPairs :
              EvaluatedCost(p) =
                  PathLength(PathWith(p[1], next_to_insert),
                             [chosen EXCEPT ![next_to_insert] = p[2]])
                  - PathLength(result, chosen)
    /\ (pc = "done" /\ elements # <<>>) =>
          PathLength(result, chosen) =
              PathLength(<<1>>, chosen) + committed_cost

\* The waypoints in the path.
Placed == {result[i] : i \in 1..Len(result)}

\* The steps a call still has to take. A round over a path of k waypoints
\* takes k + 2 steps: the front, k positions, the commit.
RECURSIVE RoundSteps(_, _)
RoundSteps(k, n) == IF k >= n THEN 0 ELSE (k + 2) + RoundSteps(k + 1, n)

StepsLeft ==
    LET n == Len(elements)
        copying == n + 2
    IN  CASE pc = "call" -> 2 + RoundSteps(1, n) + copying
          [] pc = "seed" -> 1 + RoundSteps(1, n) + copying
          [] pc = "loop" -> RoundSteps(Len(result), n) + copying
          [] pc = "scan" -> (Len(result) - before_insert + 2)
                            + RoundSteps(Len(result) + 1, n) + copying
          [] pc = "copy" -> (n - Len(result_vector)) + 1
          [] OTHER -> 0

\* A step of Next can be taken: the guard of one of its actions holds.
CanStep ==
    \/ ReturnEmptyGuard
    \/ FillAndShuffleGuard
    \/ SeedWithoutStartGuard
    \/ SeedWithStartGuard
    \/ BeginRoundGuard
    \/ TryLastGuard
    \/ TryMiddleGuard
    \/ CommitGuard
    \/ StartLineariseGuard
    \/ CopyOutGuard
    \/ ReturnGuard

\* C10: for n >= 1 elements findPath terminates, after exactly n-1 rounds:
\* until it has returned a step is possible and every step brings the
\* return one step nearer; the seed is placed first, every round inserts
\* one waypoint that was not yet placed, the path has k+1 waypoints after
\* round k, and it is not empty from the placing of the seed on.
C10_Terminates ==
    /\ [](elements # <<>> =>
            /\ pc # "done" => CanStep
            /\ pc = "done" <=> StepsLeft = 0
            /\ pc = "done" => rounds = Len(elements) - 1
            /\ pc \notin {"call", "seed"} =>
                  /\ Len(result) = rounds + 1
                  /\ 1 \in Placed
                  /\ Cardinality(Placed) = Len(result))
    /\ [][elements # <<>> =>
            /\ StepsLeft' = StepsLeft - 1
            /\ rounds' # rounds =>
                  /\ rounds' = rounds + 1
                  /\ Len(result') = Len(result) + 1
                  /\ next_to_insert \notin Placed
                  /\ Placed' = Placed \cup {next_to_insert}]_vars

\* A call for three elements has returned after two rounds.
C10_Witness ==
    /\ pc = "done"
    /\ Len(elements) = 3
    /\ rounds = 2
    /\ Len(result) = 3

\* The waypoints fillWaypoints has created in this call.
Waypoints == DOMAIN chosen

\* How often waypoint w occurs in the working path.
TimesInPath(w) == Cardinality({i \in DOMAIN result : result[i] = w})

InPath(w) == TimesInPath(w) > 0

\* Where waypoint w is in its life.
Lifecycle(w) ==
    IF deleted[w] > 0 THEN "consumed"
    ELSE IF InPath(w) THEN "placed"
    ELSE "unplaced"

\* The state that follows st; nothing follows consumed.
After(st) ==
    CASE st = "unplaced" -> "placed"
      [] st = "placed" -> "consumed"
      [] OTHER -> "consumed"

\* In any state: a waypoint's orientation has been written as often as the
\* waypoint is in the path, at most once; it is deleted at most once and
\* only after it was placed; the waypoints copied out are the deleted ones,
\* in path order; at the return all are deleted.
LifecycleInvariant ==
    /\ \A w \in Waypoints :
          /\ assigned[w] <= 1
          /\ deleted[w] <= 1
          /\ TimesInPath(w) = assigned[w]
          /\ assigned[w] = 0 => chosen[w] = Unset
          /\ deleted[w] = 1 => assigned[w] = 1
          /\ pc = "done" => deleted[w] = 1
    /\ \A i \in DOMAIN result :
          deleted[result[i]] = (IF i <= Len(result_vector) THEN 1 ELSE 0)

\* In any step of a call: a waypoint stays where it is in its life or moves
\* on by one state; its orientation changes only as it goes from unplaced to
\* placed; the waypoints that were in the path keep their relative order.
LifecycleStep ==
    (Waypoints # {} /\ DOMAIN chosen' = Waypoints) =>
        /\ \A w \in Waypoints :
              /\ Lifecycle(w)' \in {Lifecycle(w), After(Lifecycle(w))}
              /\ chosen'[w] # chosen[w] =>
                    Lifecycle(w) = "unplaced" /\ Lifecycle(w)' = "placed"
              /\ (Lifecycle(w) = "unplaced" /\ Lifecycle(w)' = "placed") =>
                    assigned'[w] = assigned[w] + 1
        /\ SelectSeq(result', LAMBDA w : InPath(w)) = result

\* C11: every waypoint of a call goes unplaced -> placed -> consumed, each
\* step once and in this order: its orientation is written exactly once, in
\* the step that puts it into the path; no later round changes the
\* orientation of a placed waypoint or the relative order of the placed
\* waypoints; at the return every waypoint has been copied out and deleted
\* exactly once.
C11_Lifecycle == []LifecycleInvariant /\ [][LifecycleStep]_vars

\* Three waypoints, the last of them not put at the back and one in its
\* second orientation, have all been placed and deleted at the return.
C11_Witness ==
    /\ pc = "done"
    /\ Len(result) = 3
    /\ result # <<1, 2, 3>>
    /\ result[3] # 3
    /\ \E w \in Waypoints : chosen[w] = 1
    /\ \A w \in Waypoints :
          assigned[w] = 1 /\ deleted[w] = 1 /\ Lifecycle(w) = "consumed"
====
